---- MODULE Spec2Model ----
(***************************************************************************)
(* Topic keys of the gossipsub crate (gossipsub/src/topic.rs): the Hasher  *)
(* strategies IdentityHash and Sha256Hash, the TopicHash value type and    *)
(* the Topic<H> wrapper.                                                   *)
(*                                                                         *)
(* A Rust String is modelled by the sequence of its UTF-8 bytes, so that   *)
(* String's Ord (byte-wise lexicographic) and len() (byte count) are what  *)
(* the code computes.  SHA-256, padded standard base-64 and the protobuf   *)
(* wire format are computed bit-exactly.  A 32-bit word is the pair        *)
(* <<high 16 bits, low 16 bits>>.                                          *)
(***************************************************************************)
EXTENDS Integers, Sequences, FiniteSets, TLC

VARIABLES first, last, n, digestInput, panicked, keyOrd, topicOrd

vars == <<first, last, n, digestInput, panicked, keyOrd, topicOrd>>

(***************************************************************************)
(* Bounds of the model.                                                    *)
(***************************************************************************)
\* Names are all strings over Alphabet of at most MaxLen bytes, plus ExtraNames.
MaxLen == 2
\* Number of operations one run performs.
MaxCalls == 3
\* Byte length of the long name: its length prefix needs a two-byte varint
\* and its envelope spans three SHA-256 blocks.
LongLen == 130

\* "c" and "C"
Alphabet == {99, 67}

RECURSIVE StringsUpTo(_)
StringsUpTo(k) ==
    IF k = 0 THEN {<<>>}
    ELSE LET shorter == StringsUpTo(k - 1)
         IN  shorter \cup {Append(s, c) : s \in shorter, c \in Alphabet}

\* The string of k bytes c.
Repeat(c, k) == [i \in 1..k |-> c] \o <<>>

\* "chat", "Chat", "é!" (a two-byte UTF-8 character, then punctuation), "aaa...a"
ExtraNames ==
    { <<99, 104, 97, 116>>, <<67, 104, 97, 116>>, <<195, 169, 33>>,
      Repeat(97, LongLen) }

Names == StringsUpTo(MaxLen) \cup ExtraNames

(***************************************************************************)
(* 32-bit words and SHA-256 (sha2::Sha256, FIPS 180-4).                    *)
(***************************************************************************)
RECURSIVE Xor16(_, _)
Xor16(a, b) ==
    IF a = 0 THEN b
    ELSE IF b = 0 THEN a
    ELSE ((a + b) % 2) + 2 * Xor16(a \div 2, b \div 2)

RECURSIVE And16(_, _)
And16(a, b) ==
    IF a = 0 \/ b = 0 THEN 0
    ELSE ((a % 2) * (b % 2)) + 2 * And16(a \div 2, b \div 2)

Xor32(x, y) == <<Xor16(x[1], y[1]), Xor16(x[2], y[2])>>

And32(x, y) == <<And16(x[1], y[1]), And16(x[2], y[2])>>

Not32(x) == <<65535 - x[1], 65535 - x[2]>>

Add32(x, y) ==
    LET lo == x[2] + y[2]
        hi == x[1] + y[1] + (lo \div 65536)
    IN  <<hi % 65536, lo % 65536>>

RECURSIVE RotR32(_, _)
RotR32(x, k) ==
    IF k >= 16 THEN RotR32(<<x[2], x[1]>>, k - 16)
    ELSE IF k = 0 THEN x
    ELSE LET p == 2 ^ k
             q == 2 ^ (16 - k)
         IN  << (x[1] \div p) + (x[2] % p) * q,
                (x[2] \div p) + (x[1] % p) * q >>

\* Logical shift right by k < 16.
Shr32(x, k) ==
    LET p == 2 ^ k
        q == 2 ^ (16 - k)
    IN  << x[1] \div p, (x[2] \div p) + (x[1] % p) * q >>

Ch(x, y, z) == Xor32(And32(x, y), And32(Not32(x), z))

Maj(x, y, z) == Xor32(Xor32(And32(x, y), And32(x, z)), And32(y, z))

BigSigma0(x) == Xor32(Xor32(RotR32(x, 2), RotR32(x, 13)), RotR32(x, 22))

BigSigma1(x) == Xor32(Xor32(RotR32(x, 6), RotR32(x, 11)), RotR32(x, 25))

SmallSigma0(x) == Xor32(Xor32(RotR32(x, 7), RotR32(x, 18)), Shr32(x, 3))

SmallSigma1(x) == Xor32(Xor32(RotR32(x, 17), RotR32(x, 19)), Shr32(x, 10))

Sha256K ==
   << <<17034, 12184>>, <<28983, 17553>>, <<46528, 64463>>, <<59829, 56229>>,
      <<14678, 49755>>, <<23025, 4593>>, <<37439, 33444>>, <<43804, 24277>>,
      <<55303, 43672>>, <<4739, 23297>>, <<9265, 34238>>, <<21772, 32195>>,
      <<29374, 23924>>, <<32990, 45566>>, <<39900, 1703>>, <<49563, 61812>>,
      <<58523, 27073>>, <<61374, 18310>>, <<4033, 40390>>, <<9228, 41420>>,
      <<11753, 11375>>, <<19060, 33962>>, <<23728, 43484>>, <<30457, 35034>>,
      <<38974, 20818>>, <<43057, 50797>>, <<45059, 10184>>, <<48985, 32711>>,
      <<50912, 3059>>, <<54695, 37191>>, <<1738, 25425>>, <<5161, 10599>>,
      <<10167, 2693>>, <<11803, 8504>>, <<19756, 28156>>, <<21304, 3347>>,
      <<25866, 29524>>, <<30314, 2747>>, <<33218, 51502>>, <<37490, 11397>>,
      <<41663, 59553>>, <<43034, 26187>>, <<49739, 35696>>, <<51052, 20899>>,
      <<53650, 59417>>, <<54937, 1572>>, <<62478, 13701>>, <<4202, 41072>>,
      <<6564, 49430>>, <<7735, 27656>>, <<10056, 30540>>, <<13488, 48309>>,
      <<14620, 3251>>, <<20184, 43594>>, <<23452, 51791>>, <<26670, 28659>>,
      <<29839, 33518>>, <<30885, 25455>>, <<33992, 30740>>, <<36039, 520>>,
      <<37054, 65530>>, <<42064, 27883>>, <<48889, 41975>>, <<50801, 30962>> >>

Sha256H0 ==
   << <<27145, 58983>>, <<47975, 44677>>, <<15470, 62322>>, <<42319, 62778>>,
      <<20750, 21119>>, <<39685, 26764>>, <<8067, 55723>>, <<23520, 52505>> >>

\* The message followed by 0x80, zeros up to 56 mod 64, and the bit length
\* as a 64-bit big-endian integer.
Sha256Pad(msg) ==
    LET len   == Len(msg)
        zeros == (119 - (len % 64)) % 64
        bits  == len * 8
    IN  msg \o <<128>> \o [i \in 1..zeros |-> 0]
            \o <<0, 0, 0, 0, (bits \div 16777216) % 256, (bits \div 65536) % 256,
                 (bits \div 256) % 256, bits % 256>>

\* The 16 big-endian words of the 64-byte block starting after byte `off`.
BlockWords(m, off) ==
    [t \in 1..16 |->
        << m[off + 4 * t - 3] * 256 + m[off + 4 * t - 2],
           m[off + 4 * t - 1] * 256 + m[off + 4 * t] >>]

RECURSIVE Schedule(_)
Schedule(w) ==
    LET t == Len(w) + 1
    IN  IF t > 64 THEN w
        ELSE Schedule(Append(w,
                 Add32(Add32(SmallSigma1(w[t - 2]), w[t - 7]),
                       Add32(SmallSigma0(w[t - 15]), w[t - 16]))))

\* One round: the eight working variables a..h after round t.
Round(s, wt, kt) ==
    LET t1 == Add32(Add32(Add32(s[8], BigSigma1(s[5])),
                          Add32(Ch(s[5], s[6], s[7]), kt)), wt)
        t2 == Add32(BigSigma0(s[1]), Maj(s[1], s[2], s[3]))
    IN  <<Add32(t1, t2), s[1], s[2], s[3], Add32(s[4], t1), s[5], s[6], s[7]>>

\* Rounds t..64.  Len(s) = 8 always holds; testing it makes TLC evaluate the
\* working variables before the next round instead of building a chain of
\* 64 suspended rounds.
RECURSIVE Rounds(_, _, _)
Rounds(s, w, t) ==
    IF t > 64 \/ Len(s) # 8 THEN s
    ELSE Rounds(Round(s, w[t], Sha256K[t]), w, t + 1)

Compress(h, block) ==
    LET w == Schedule(block)
        s == Rounds(h, w, 1)
    IN  <<Add32(h[1], s[1]), Add32(h[2], s[2]), Add32(h[3], s[3]), Add32(h[4], s[4]),
          Add32(h[5], s[5]), Add32(h[6], s[6]), Add32(h[7], s[7]), Add32(h[8], s[8])>>

RECURSIVE Blocks(_, _, _)
Blocks(h, m, off) ==
    IF off >= Len(m) THEN h
    ELSE Blocks(Compress(h, BlockWords(m, off)), m, off + 64)

RECURSIVE WordBytes(_, _)
WordBytes(h, i) ==
    IF i > Len(h) THEN <<>>
    ELSE <<h[i][1] \div 256, h[i][1] % 256, h[i][2] \div 256, h[i][2] % 256>>
             \o WordBytes(h, i + 1)

\* The 32-byte SHA-256 digest of a byte sequence.
Sha256Compute(msg) == WordBytes(Blocks(Sha256H0, Sha256Pad(msg), 0), 1)

(***************************************************************************)
(* Padded standard-alphabet base-64 (base64::prelude::BASE64_STANDARD).    *)
(* Strings are byte sequences, so the output is the ASCII codes.           *)
(***************************************************************************)
\* The character of the 6-bit value v: A-Z, a-z, 0-9, '+', '/'.
Base64Char(v) ==
    IF v < 26 THEN 65 + v
    ELSE IF v < 52 THEN 97 + (v - 26)
    ELSE IF v < 62 THEN 48 + (v - 52)
    ELSE IF v = 62 THEN 43
    ELSE 47

RECURSIVE Base64Encode(_, _)
Base64Encode(b, pad) ==
    IF Len(b) = 0 THEN <<>>
    ELSE IF Len(b) = 1 THEN
        <<Base64Char(b[1] \div 4), Base64Char((b[1] % 4) * 16)>>
            \o (IF pad THEN <<61, 61>> ELSE <<>>)
    ELSE IF Len(b) = 2 THEN
        <<Base64Char(b[1] \div 4), Base64Char((b[1] % 4) * 16 + (b[2] \div 16)),
          Base64Char((b[2] % 16) * 4)>>
            \o (IF pad THEN <<61>> ELSE <<>>)
    ELSE
        <<Base64Char(b[1] \div 4), Base64Char((b[1] % 4) * 16 + (b[2] \div 16)),
          Base64Char((b[2] % 16) * 4 + (b[3] \div 64)), Base64Char(b[3] % 64)>>
            \o Base64Encode(SubSeq(b, 4, Len(b)), pad)

BASE64_STANDARD_NO_PAD_encode(b) == Base64Encode(b, FALSE)

BASE64_STANDARD_encode(b) == Base64Encode(b, TRUE)

(***************************************************************************)
(* Option<T>: None is the empty sequence, Some(v) the one-element one.     *)
(***************************************************************************)
None == <<>>

Some(v) == <<v>>

IsSome(o) == Len(o) = 1

(***************************************************************************)
(* quick_protobuf: the Writer over a byte buffer, and the generated        *)
(* proto::TopicDescriptor { name: 1, auth: 2, enc: 3 } message.            *)
(***************************************************************************)
\* Field keys (field number * 8 + wire type 2, length-delimited).
TagName == 10
TagAuth == 18
TagEnc == 26

RECURSIVE Varint(_)
Varint(v) ==
    IF v > 127 THEN <<(v % 128) + 128>> \o Varint(v \div 128) ELSE <<v>>

sizeof_varint(v) ==
    IF v < 128 THEN 1
    ELSE IF v < 16384 THEN 2
    ELSE IF v < 2097152 THEN 3
    ELSE IF v < 268435456 THEN 4
    ELSE 5

sizeof_len(len) == sizeof_varint(len) + len

\* Vec::with_capacity(cap): an empty growable buffer.
Vec_with_capacity(cap) == [backend |-> "Vec", data |-> <<>>, cap |-> cap]

\* A fixed slice of cap bytes behind a BytesWriter: it cannot grow.
BytesWriter_new(cap) == [backend |-> "BytesWriter", data |-> <<>>, cap |-> cap]

Writer_new(buf) == [ok |-> TRUE, w |-> buf]

\* WriterBackend: appending to a Vec never fails; a write past the end of a
\* fixed slice is Err(UnexpectedEndOfBuffer).  An earlier error is kept (`?`).
Writer_write(r, bytes) ==
    IF ~r.ok THEN r
    ELSE IF r.w.backend = "Vec" \/ Len(r.w.data) + Len(bytes) <= r.w.cap
         THEN [ok |-> TRUE, w |-> [r.w EXCEPT !.data = @ \o bytes]]
         ELSE [ok |-> FALSE, w |-> r.w]

\* write_with_tag(tag, |w| w.write_string(s)) and, for a nested message
\* already encoded as `bytes`, write_with_tag(tag, |w| w.write_message(m)).
Writer_write_with_tag(r, tag, bytes) ==
    Writer_write(Writer_write(Writer_write(r, Varint(tag)), Varint(Len(bytes))), bytes)

TopicDescriptor_get_size(td) ==
    (IF IsSome(td.name) THEN 1 + sizeof_len(Len(td.name[1])) ELSE 0)
    + (IF IsSome(td.auth) THEN 1 + sizeof_len(Len(td.auth[1])) ELSE 0)
    + (IF IsSome(td.enc) THEN 1 + sizeof_len(Len(td.enc[1])) ELSE 0)

TopicDescriptor_write_message(td, r) ==
    LET r1 == IF IsSome(td.name) THEN Writer_write_with_tag(r, TagName, td.name[1]) ELSE r
        r2 == IF IsSome(td.auth) THEN Writer_write_with_tag(r1, TagAuth, td.auth[1]) ELSE r1
    IN  IF IsSome(td.enc) THEN Writer_write_with_tag(r2, TagEnc, td.enc[1]) ELSE r2

(***************************************************************************)
(* topic.rs: the Hasher strategies.                                        *)
(***************************************************************************)
\* ASCII lower-casing of a string (used by no strategy of topic.rs).
ToAsciiLowercase(s) == [i \in 1..Len(s) |-> IF s[i] >= 65 /\ s[i] <= 90 THEN s[i] + 32 ELSE s[i]] \o <<>>

\* An identity strategy that salts the key with the number of earlier calls.
IdentityHash_hash_counting(topic_string) == [hash |-> Append(topic_string, 48 + n)]

\* An identity strategy that normalises the name to lower case.
IdentityHash_hash_lowercase(topic_string) == [hash |-> ToAsciiLowercase(topic_string)]

\* An identity strategy that marks its keys with a strategy prefix, "id:".
IdentityHash_hash_prefixed(topic_string) == [hash |-> <<105, 100, 58>> \o topic_string]

\* IdentityHash::hash: TopicHash { hash: topic_string }.
IdentityHash_hash(topic_string) == [hash |-> topic_string]

\* proto::TopicDescriptor { name: Some(topic_string), auth: None, enc: None }
TopicDescriptor(topic_string) == [name |-> Some(topic_string), auth |-> None, enc |-> None]

\* The encoding step writing into a fixed slice sized by the name alone.
Sha256Hash_encode_slice(topic_string) ==
    TopicDescriptor_write_message(TopicDescriptor(topic_string),
                                  Writer_new(BytesWriter_new(Len(topic_string))))

\* The encoding step with the name lower-cased first.
Sha256Hash_encode_lowercase(topic_string) ==
    LET topic_descripter == TopicDescriptor(ToAsciiLowercase(topic_string))
    IN  TopicDescriptor_write_message(topic_descripter,
            Writer_new(Vec_with_capacity(TopicDescriptor_get_size(topic_descripter))))

\* The encoding step leaving an empty name unset (a default-valued field).
Sha256Hash_encode_skip_empty(topic_string) ==
    LET topic_descripter ==
            [name |-> IF topic_string = <<>> THEN None ELSE Some(topic_string),
             auth |-> None, enc |-> None]
    IN  TopicDescriptor_write_message(topic_descripter,
            Writer_new(Vec_with_capacity(TopicDescriptor_get_size(topic_descripter))))

\* Sha256Hash::hash up to the expect: the descriptor written into `bytes`.
\* The result is Ok with the buffer, or the writer's Err.
Sha256Hash_encode(topic_string) ==
    LET topic_descripter == TopicDescriptor(topic_string)
    IN  TopicDescriptor_write_message(topic_descripter,
            Writer_new(Vec_with_capacity(TopicDescriptor_get_size(topic_descripter))))

\* The digests of the envelopes of Names, computed once.
Sha256Known ==
    { <<m, Sha256Compute(m)>> : m \in { Sha256Hash_encode(s).w.data : s \in Names } }

\* Sha256::digest(&bytes).
Sha256_digest(bytes) ==
    IF \E p \in Sha256Known : p[1] = bytes
    THEN (CHOOSE p \in Sha256Known : p[1] = bytes)[2]
    ELSE Sha256Compute(bytes)

\* What a caller sees when .expect("Encoding to succeed") fails.
Panic == [panic |-> "Encoding to succeed"]

IsPanic(k) == k = Panic

\* Sha256Hash::hash.
Sha256Hash_hash(topic_string) ==
    LET r == Sha256Hash_encode(topic_string)
    IN  IF r.ok
        THEN [hash |-> BASE64_STANDARD_encode(Sha256_digest(r.w.data))]
        ELSE Panic

(***************************************************************************)
(* topic.rs: TopicHash.                                                    *)
(***************************************************************************)
Min(S) == CHOOSE x \in S : \A y \in S : x <= y

int_cmp(x, y) == IF x < y THEN "Less" ELSE IF x = y THEN "Equal" ELSE "Greater"

\* Ord for String: the bytes are compared up to the shorter length, then
\* the lengths.
String_cmp(a, b) ==
    LET l == IF Len(a) < Len(b) THEN Len(a) ELSE Len(b)
        diff == {i \in 1..l : a[i] # b[i]}
    IN  IF diff = {} THEN int_cmp(Len(a), Len(b))
        ELSE int_cmp(a[Min(diff)], b[Min(diff)])

\* An order comparing lengths before bytes.
TopicHash_cmp_shortlex(a, b) ==
    IF Len(a.hash) # Len(b.hash) THEN int_cmp(Len(a.hash), Len(b.hash))
    ELSE String_cmp(a.hash, b.hash)

\* #[derive(PartialOrd, Ord)] on TopicHash { hash }.
TopicHash_cmp(a, b) == String_cmp(a.hash, b.hash)

\* #[derive(PartialEq, Eq)] on TopicHash { hash }.
TopicHash_eq(a, b) == a.hash = b.hash

RECURSIVE TrimPadding(_)
TrimPadding(s) ==
    IF Len(s) > 0 /\ s[Len(s)] = 61 THEN TrimPadding(SubSeq(s, 1, Len(s) - 1)) ELSE s

\* A constructor that strips trailing '=' padding.
TopicHash_from_raw_trimmed(hash) == [hash |-> TrimPadding(hash)]

\* TopicHash::from_raw.
TopicHash_from_raw(hash) == [hash |-> hash]

\* TopicHash::into_string.
TopicHash_into_string(self) == self.hash

\* TopicHash::as_str.
TopicHash_as_str(self) == self.hash

\* Display for TopicHash: write!(f, "{}", self.hash).
TopicHash_fmt(self) == self.hash

(***************************************************************************)
(* topic.rs: Topic<H>.  The type parameter H is kept in phantom_data.      *)
(***************************************************************************)
\* Topic::<H>::new.
Topic_new(topic, H) == [topic |-> topic, phantom_data |-> H]

\* Topic::hash: H::hash(self.topic.clone()).
Topic_hash(self) ==
    IF self.phantom_data = "IdentityHash" THEN IdentityHash_hash(self.topic)
    ELSE Sha256Hash_hash(self.topic)

\* Display for Topic: write!(f, "{}", self.topic).
Topic_fmt(self) == self.topic

\* PhantomData<H> values are all equal.
PhantomData_cmp(x, y) == "Equal"

\* An order on topics that compares their derived keys.
Topic_cmp_by_key(a, b) == TopicHash_cmp(Topic_hash(a), Topic_hash(b))

\* #[derive(PartialOrd, Ord)] on Topic { topic, phantom_data }, for two
\* topics of the same type Topic<H>.
Topic_cmp(a, b) ==
    LET c == String_cmp(a.topic, b.topic)
    IN  IF c # "Equal" THEN c ELSE PhantomData_cmp(a.phantom_data, b.phantom_data)

\* #[derive(PartialEq, Eq)] on Topic { topic, phantom_data }.
Topic_eq(a, b) ==
    a.topic = b.topic /\ PhantomData_cmp(a.phantom_data, b.phantom_data) = "Equal"

(***************************************************************************)
(* The state: what a caller of the module has observed.                    *)
(*   first, last  the first and the latest call: its operation, the name   *)
(*                passed, the Topic built (if any) and the key returned    *)
(*   n            the number of calls made                                 *)
(*   digestInput  the bytes the latest call fed to Sha256::digest, if any  *)
(*   panicked     whether a call panicked                                  *)
(*   keyOrd       first.key compared with last.key (cmp and ==), if done   *)
(*   topicOrd     first.topic compared with last.topic, if done            *)
(***************************************************************************)
NoCall == [op |-> "none"]

\* The strings of the keys obtained so far.
KeyStrings ==
    { TopicHash_as_str(c.key) : c \in { d \in {first, last} : d # NoCall /\ ~IsPanic(d.key) } }

Init ==
    /\ first = NoCall
    /\ last = NoCall
    /\ n = 0
    /\ digestInput = None
    /\ panicked = FALSE
    /\ keyOrd = None
    /\ topicOrd = None

\* A call returned (or panicked): record it.
Observe(call, fed) ==
    /\ first' = IF first = NoCall THEN call ELSE first
    /\ last' = call
    /\ n' = n + 1
    /\ digestInput' = fed
    /\ panicked' = IsPanic(call.key)
    /\ keyOrd' = None
    /\ topicOrd' = None

\* Topic::<IdentityHash>::new(s).hash(), s a name or an earlier key's string.
HashIdentity(s) ==
    /\ ~panicked
    /\ n < MaxCalls
    /\ LET t == Topic_new(s, "IdentityHash")
       IN  Observe([op |-> "IdentityHash", name |-> s, topic |-> Some(t),
                    key |-> Topic_hash(t)], None)

\* Topic::<Sha256Hash>::new(s).hash().
HashSha256(s) ==
    /\ ~panicked
    /\ n < MaxCalls
    /\ LET t == Topic_new(s, "Sha256Hash")
           r == Sha256Hash_encode(s)
       IN  Observe([op |-> "Sha256Hash", name |-> s, topic |-> Some(t),
                    key |-> Topic_hash(t)],
                   IF r.ok THEN Some(r.w.data) ELSE None)

\* TopicHash::from_raw(s), s a name or an earlier key's string.
FromRaw(s) ==
    /\ ~panicked
    /\ n < MaxCalls
    /\ Observe([op |-> "from_raw", name |-> s, topic |-> None,
                key |-> TopicHash_from_raw(s)], None)

\* first.key.cmp(&last.key) and first.key == last.key.
CompareKeys ==
    /\ ~panicked
    /\ n >= 1
    /\ keyOrd = None
    /\ keyOrd' = Some([cmp |-> TopicHash_cmp(first.key, last.key),
                       eq |-> TopicHash_eq(first.key, last.key)])
    /\ UNCHANGED <<first, last, n, digestInput, panicked, topicOrd>>

\* first.topic.cmp(&last.topic) and first.topic == last.topic, for two
\* topics of one type Topic<H>.
CompareTopics ==
    /\ ~panicked
    /\ n >= 1
    /\ topicOrd = None
    /\ IsSome(first.topic) /\ IsSome(last.topic)
    /\ first.topic[1].phantom_data = last.topic[1].phantom_data
    /\ topicOrd' = Some([cmp |-> Topic_cmp(first.topic[1], last.topic[1]),
                         eq |-> Topic_eq(first.topic[1], last.topic[1])])
    /\ UNCHANGED <<first, last, n, digestInput, panicked, keyOrd>>

Next ==
    \/ \E s \in Names \cup KeyStrings : HashIdentity(s)
    \/ \E s \in Names : HashSha256(s)
    \/ \E s \in Names \cup KeyStrings : FromRaw(s)
    \/ CompareKeys
    \/ CompareTopics

Spec == Init /\ [][Next]_vars

(***************************************************************************)
(* Properties.                                                             *)
(***************************************************************************)
Strategies == {"IdentityHash", "Sha256Hash"}

\* Both registers hold a call.
Two == first # NoCall /\ last # NoCall

\* a < b in the lexicographic order of byte strings: at the first position
\* where they differ a has the smaller byte, or a is a proper prefix of b.
LexLess(a, b) ==
    \E k \in 0..(Len(b) - 1) :
        /\ k <= Len(a)
        /\ \A i \in 1..k : a[i] = b[i]
        /\ (k = Len(a) \/ a[k + 1] < b[k + 1])

\* Reading a protobuf message back: the varint at position pos
\* (<<value, position after it>>), and the length-delimited fields in order
\* (<<field key, payload>>; <<-1, <<>>>> where the bytes are not well formed).
RECURSIVE ReadVarint(_, _)
ReadVarint(bytes, pos) ==
    IF pos > Len(bytes) THEN <<-1, pos>>
    ELSE IF bytes[pos] < 128 THEN <<bytes[pos], pos + 1>>
    ELSE LET rest == ReadVarint(bytes, pos + 1)
         IN  IF rest[1] < 0 THEN rest
             ELSE <<(bytes[pos] - 128) + 128 * rest[1], rest[2]>>

RECURSIVE ReadFields(_, _)
ReadFields(bytes, pos) ==
    IF pos > Len(bytes) THEN <<>>
    ELSE LET key == ReadVarint(bytes, pos)
             len == ReadVarint(bytes, key[2])
         IN  IF key[1] < 0 \/ len[1] < 0 \/ len[2] + len[1] - 1 > Len(bytes)
             THEN << <<-1, <<>>>> >>
             ELSE << <<key[1], SubSeq(bytes, len[2], len[2] + len[1] - 1)>> >>
                      \o ReadFields(bytes, len[2] + len[1])

C2_IdentityTransparent ==
    (last # NoCall /\ last.op = "IdentityHash") =>
        /\ ~IsPanic(last.key)
        /\ TopicHash_as_str(last.key) = last.name
        /\ TopicHash_into_string(last.key) = last.name
        /\ TopicHash_fmt(last.key) = last.name

\* IdentityHash applied to the empty name after a name with capitals.
C2_Witness ==
    /\ Two
    /\ first.op = "IdentityHash" /\ first.name = <<67, 104, 97, 116>>
    /\ last.op = "IdentityHash" /\ last.name = <<>>

\* C3: the key Sha256Hash returns is 44 characters long for every name.
C3_FixedLength ==
    \A c \in {first, last} :
        (c # NoCall /\ c.op = "Sha256Hash") =>
            ~IsPanic(c.key) /\ Len(TopicHash_as_str(c.key)) = 44

\* Sha256Hash applied to the empty name and to the long name.
C3_Witness ==
    /\ Two
    /\ first.op = "Sha256Hash" /\ first.name = <<>>
    /\ last.op = "Sha256Hash" /\ Len(last.name) = LongLen

\* C4: keys are ordered as their strings are ordered lexicographically:
\* exactly one of <, ==, > holds, < exactly when the first string is less,
\* and == (by cmp and by PartialEq) exactly when the strings are equal.
C4_OrderingConsistency ==
    IsSome(keyOrd) =>
        LET a == TopicHash_as_str(first.key)
            b == TopicHash_as_str(last.key)
        IN  /\ keyOrd[1].cmp \in {"Less", "Equal", "Greater"}
            /\ (keyOrd[1].cmp = "Less") <=> LexLess(a, b)
            /\ (keyOrd[1].cmp = "Greater") <=> LexLess(b, a)
            /\ (keyOrd[1].cmp = "Equal") <=> (a = b)
            /\ keyOrd[1].eq <=> (a = b)

\* Two from_raw keys compared where the longer string is the smaller.
C4_Witness ==
    /\ IsSome(keyOrd)
    /\ first.op = "from_raw" /\ last.op = "from_raw"
    /\ keyOrd[1].cmp = "Less"
    /\ Len(first.name) > Len(last.name)

\* C5: from_raw keeps every string as it is, and from_raw of the string of
\* a key is equal to that key.
C5_RoundTrip ==
    (Two /\ last.op = "from_raw") =>
        /\ ~IsPanic(last.key)
        /\ TopicHash_as_str(last.key) = last.name
        /\ (~IsPanic(first.key) /\ last.name = TopicHash_as_str(first.key))
              => (TopicHash_eq(last.key, first.key) /\ last.key = first.key)

\* A Sha256Hash key taken through as_str and from_raw.
C5_Witness ==
    /\ Two
    /\ first.op = "Sha256Hash"
    /\ last.op = "from_raw"
    /\ last.name = TopicHash_as_str(first.key)

\* C6: no derivation panics: every call returns a key.
C6_Total ==
    /\ ~panicked
    /\ \A c \in {first, last} : c # NoCall => ~IsPanic(c.key)

\* Both strategies applied, to the empty name and to a non-ASCII name.
C6_Witness ==
    /\ Two
    /\ first.op = "IdentityHash" /\ first.name = <<>>
    /\ last.op = "Sha256Hash" /\ last.name = <<195, 169, 33>>
    /\ ~IsPanic(last.key)

\* C7: Sha256Hash returns different keys for different names of the sample.
C7_Distinct ==
    (Two /\ first.op = "Sha256Hash" /\ last.op = "Sha256Hash"
         /\ first.name # last.name)
        => ~TopicHash_eq(first.key, last.key)

\* "chat" and "Chat" hashed.
C7_Witness ==
    /\ Two
    /\ first.op = "Sha256Hash" /\ first.name = <<99, 104, 97, 116>>
    /\ last.op = "Sha256Hash" /\ last.name = <<67, 104, 97, 116>>

\* C8: the bytes Sha256Hash feeds to the digest are one length-delimited
\* field, the name field holding the name; the auth and enc fields are absent.
C8_Envelope ==
    (last # NoCall /\ last.op = "Sha256Hash") =>
        /\ IsSome(digestInput)
        /\ ReadFields(digestInput[1], 1) = << <<TagName, last.name>> >>

\* The empty name hashed: the name field is there, with no bytes.
C8_Witness ==
    /\ last # NoCall
    /\ last.op = "Sha256Hash" /\ last.name = <<>>
    /\ IsSome(digestInput) /\ Len(digestInput[1]) = 2

C10_CrossStrategy ==
    (Two /\ first.op = "Sha256Hash" /\ ~IsPanic(first.key)
         /\ last.op \in {"IdentityHash", "from_raw"}
         /\ last.name = TopicHash_into_string(first.key))
        => (TopicHash_eq(last.key, first.key) /\ last.key = first.key)

\* An IdentityHash topic named by the key of a Sha256Hash topic: the names
\* differ and the keys are equal.
C10_Witness ==
    /\ Two
    /\ first.op = "Sha256Hash" /\ last.op = "IdentityHash"
    /\ last.name = TopicHash_into_string(first.key)
    /\ first.name # last.name
    /\ keyOrd = Some([cmp |-> "Equal", eq |-> TRUE])

====
